---- MODULE Spec2Model ----
(***************************************************************************)
(* Model of parlai/utils/conversations.py: the Metadata sidecar, the       *)
(* Conversations archive (load, indexed access, cursor iteration) and      *)
(* Conversations.save_conversations (episodes -> JSONL lines + metadata).  *)
(*                                                                         *)
(* Python values are tagged records [kind, v] so that json.dumps and       *)
(* json.loads are real conversions: a tuple is written as a JSON array and *)
(* an array is read back as a list.  A dict is a function from its keys.   *)
(***************************************************************************)
EXTENDS Integers, Sequences, FiniteSets, TLC

VARIABLES
    act_list,       \* argument of save_conversations: episodes of turn-pairs
    save_keys,      \* save_keys.split(',') of the save call
    context_ids,    \* context_ids.split(',') of the save call
    convFile,       \* the conversation file on disk
    metaFile,       \* the metadata sidecar on disk
    pc,             \* "start" | "saved" | "loaded" | "failed"
    conversations,  \* Conversations.conversations
    metadata,       \* Conversations.metadata
    iterator_idx,   \* Conversations.iterator_idx
    call,           \* the last call made: its name and its integer argument
    ret,            \* outcome of the last call (value returned or error raised)
    nextCalls       \* number of __next__ calls made since loading, while no
                    \* other call was made; -1 once another call intervened

vars == <<act_list, save_keys, context_ids, convFile, metaFile, pc,
          conversations, metadata, iterator_idx, call, ret, nextCalls>>

---------------------------------------------------------------------------
(* Bounds of the model.                                                    *)
MaxSize == 7         \* episodes + turn-pairs + turns of one act list
MaxLines == 2        \* lines of a conversation file found on disk
MaxNextCalls == 4    \* __next__ calls counted since loading

---------------------------------------------------------------------------
(* Python values.                                                          *)
Str(s) == [kind |-> "str", v |-> <<s>>]
List(xs) == [kind |-> "list", v |-> xs]
Tuple(xs) == [kind |-> "tuple", v |-> xs]
None == [kind |-> "none", v |-> <<>>]

(* dict.get(key, default)                                                  *)
Get(d, key, default) == IF key \in DOMAIN d THEN d[key] ELSE default

(* x in lst / x not in lst, for a Python list                              *)
InList(x, lst) == \E i \in 1..Len(lst) : lst[i] = x

(* json.dumps of a value: str -> string, list and tuple -> array,          *)
(* None -> null.                                                           *)
DumpsValue(x) ==
    CASE x.kind = "str" -> [kind |-> "string", v |-> x.v]
      [] x.kind = "list" -> [kind |-> "array", v |-> x.v]
      [] x.kind = "tuple" -> [kind |-> "array", v |-> x.v]
      [] x.kind = "none" -> [kind |-> "null", v |-> <<>>]

(* json.loads of a value: string -> str, array -> list, null -> None.      *)
LoadsValue(j) ==
    CASE j.kind = "string" -> [kind |-> "str", v |-> j.v]
      [] j.kind = "array" -> [kind |-> "list", v |-> j.v]
      [] j.kind = "null" -> [kind |-> "none", v |-> <<>>]

DumpsTurn(turn) == [k \in DOMAIN turn |-> DumpsValue(turn[k])]
LoadsTurn(jt) == [k \in DOMAIN jt |-> LoadsValue(jt[k])]
DumpsTurns(ts) == [i \in 1..Len(ts) |-> DumpsTurn(ts[i])]
LoadsTurns(js) == [i \in 1..Len(js) |-> LoadsTurn(js[i])]

(* json.dumps(convo) and json.loads(line) for a conversation record.       *)
Dumps(convo) ==
    [dialog |-> [i \in 1..Len(convo.dialog) |-> DumpsTurns(convo.dialog[i])],
     context |-> DumpsTurns(convo.context),
     metadata_path |-> convo.metadata_path]

Loads(line) ==
    [dialog |-> [i \in 1..Len(line.dialog) |-> LoadsTurns(line.dialog[i])],
     context |-> LoadsTurns(line.context),
     metadata_path |-> line.metadata_path]

---------------------------------------------------------------------------
(* Paths: os.path.splitext keeps the stem; each class appends its own      *)
(* extension.                                                              *)
DataPath == [stem |-> "chat", ext |-> ".txt"]
MetadataGetPath(datapath) == [stem |-> datapath.stem, ext |-> ".metadata"]
ConversationsGetPath(datapath) == [stem |-> datapath.stem, ext |-> ".jsonl"]

---------------------------------------------------------------------------
(* save_conversations, from the innermost loop outwards.                   *)

(* ex_id = ex.get('id')                                                    *)
ExId(ex) == Get(ex, "id", None)

(* context = ex_id in context_ids                                          *)
IsContext(ex, cids) == InList(ExId(ex), cids)

(* A speakers list that is appended to without the membership test.       *)
SpeakersAfterTurnNoDedup(speakers, ex, cids) ==
    IF ~IsContext(ex, cids) THEN Append(speakers, ExId(ex)) ELSE speakers

(* if ex_id not in speakers: speakers.append(ex_id), for a non-context     *)
(* turn only.                                                              *)
SpeakersAfterTurn(speakers, ex, cids) ==
    IF ~IsContext(ex, cids) /\ ~InList(ExId(ex), speakers)
    THEN Append(speakers, ExId(ex))
    ELSE speakers

(* A projection that copies only the keys the source turn has.             *)
SetTurnPresentOnly(ex, keys) ==
    [k \in ({keys[i] : i \in 1..Len(keys)} \cap DOMAIN ex) \cup {"id"} |->
        IF k = "id" THEN ExId(ex) ELSE ex[k]]

(* turn = {}; turn[key] = ex.get(key, '') for every key; turn['id'] = ex_id *)
SetTurn(ex, keys) ==
    [k \in {keys[i] : i \in 1..Len(keys)} \cup {"id"} |->
        IF k = "id" THEN ExId(ex) ELSE Get(ex, k, Str(""))]

(* A pair built by inserting each turn at the front.                       *)
PairAfterTurnPrepend(new_pair, ex, keys, cids) ==
    IF ~IsContext(ex, cids) THEN <<SetTurn(ex, keys)>> \o new_pair
    ELSE new_pair

(* if not context: new_pair.append(turn)                                   *)
PairAfterTurn(new_pair, ex, keys, cids) ==
    IF ~IsContext(ex, cids) THEN Append(new_pair, SetTurn(ex, keys))
    ELSE new_pair

(* else: convo['context'].append(turn)                                     *)
ContextAfterTurn(context, ex, keys, cids) ==
    IF IsContext(ex, cids) THEN Append(context, SetTurn(ex, keys))
    ELSE context

(* for ex in act_pair: ... , from turn i on; st = [new_pair, context,      *)
(* speakers]                                                               *)
RECURSIVE PairLoop(_, _, _, _, _)
PairLoop(act_pair, i, st, keys, cids) ==
    IF i > Len(act_pair) THEN st
    ELSE PairLoop(act_pair, i + 1,
                  [new_pair |-> PairAfterTurn(st.new_pair, act_pair[i], keys, cids),
                   context |-> ContextAfterTurn(st.context, act_pair[i], keys, cids),
                   speakers |-> SpeakersAfterTurn(st.speakers, act_pair[i], cids)],
                  keys, cids)

(* A dialog that also receives the pairs left empty.                       *)
DialogAfterPairAlways(dialog, new_pair) == Append(dialog, new_pair)

(* if new_pair: convo['dialog'].append(new_pair)                           *)
DialogAfterPair(dialog, new_pair) ==
    IF new_pair # <<>> THEN Append(dialog, new_pair) ELSE dialog

(* for act_pair in ep: ... , from pair j on; st = [dialog, context,        *)
(* speakers]                                                               *)
RECURSIVE EpisodeLoop(_, _, _, _, _)
EpisodeLoop(ep, j, st, keys, cids) ==
    IF j > Len(ep) THEN st
    ELSE LET r == PairLoop(ep[j], 1,
                           [new_pair |-> <<>>, context |-> st.context,
                            speakers |-> st.speakers],
                           keys, cids)
         IN  EpisodeLoop(ep, j + 1,
                         [dialog |-> DialogAfterPair(st.dialog, r.new_pair),
                          context |-> r.context,
                          speakers |-> r.speakers],
                         keys, cids)

(* Concatenation of a sequence of sequences.                               *)
RECURSIVE Flatten(_)
Flatten(ss) == IF ss = <<>> THEN <<>> ELSE Head(ss) \o Flatten(Tail(ss))

(* A save that skips no episode.                                           *)
NeverSkipped(ep) == FALSE

(* A save that also skips the episodes without any turn.                   *)
SkippedIfNoTurns(ep) == Flatten(ep) = <<>>

(* if not ep: continue                                                     *)
Skipped(ep) == ep = <<>>

(* for ep in act_list: ... f.write(json_convo + '\n'), from episode n on;  *)
(* st = [lines, speakers]                                                  *)
RECURSIVE SaveLoop(_, _, _, _, _, _)
SaveLoop(acts, n, st, keys, cids, to_save) ==
    IF n > Len(acts) THEN st
    ELSE IF Skipped(acts[n]) THEN SaveLoop(acts, n + 1, st, keys, cids, to_save)
    ELSE LET r == EpisodeLoop(acts[n], 1,
                              [dialog |-> <<>>, context |-> <<>>,
                               speakers |-> st.speakers],
                              keys, cids)
             convo == [dialog |-> r.dialog, context |-> r.context,
                       metadata_path |-> MetadataGetPath(to_save)]
         IN  SaveLoop(acts, n + 1,
                      [lines |-> Append(st.lines, Dumps(convo)),
                       speakers |-> r.speakers],
                      keys, cids, to_save)

(* The lines and the speakers one save_conversations call produces.        *)
Saved(acts, keys, cids) ==
    SaveLoop(acts, 1, [lines |-> <<>>, speakers |-> <<>>], keys, cids,
             ConversationsGetPath(DataPath))

---------------------------------------------------------------------------
(* Metadata.                                                               *)

(* The keys _load reads, in the order it reads them.                       *)
RequiredKeys == <<"date", "opt", "self_chat", "speakers", "version">>
RequiredKeySet == {RequiredKeys[i] : i \in 1..Len(RequiredKeys)}

(* A sidecar on disk: absent, not JSON, or a JSON object with the keys     *)
(* `keys`; of the values only speakers is kept, the others are opaque.     *)
NoSidecar == [kind |-> "absent", keys |-> {}, speakers |-> <<>>]
BadSidecar == [kind |-> "malformed", keys |-> {}, speakers |-> <<>>]

(* Metadata.save_metadata: the record json.dumps writes (no **kwargs).     *)
SaveMetadata(speakers) ==
    [kind |-> "json", keys |-> RequiredKeySet,
     speakers |-> [i \in 1..Len(speakers) |-> DumpsValue(speakers[i])]]

(* self.metadata of an archive: None, or a Metadata object.                *)
NoMetadata == [present |-> FALSE, speakers |-> <<>>, extra_data |-> {}]

(* Metadata._load: RuntimeError when the file is missing, json.load's      *)
(* error when it is not JSON, KeyError at the first required key absent.   *)
MetadataLoad(file) ==
    IF file.kind = "absent"
    THEN [status |-> "RuntimeError", value |-> NoMetadata]
    ELSE IF file.kind = "malformed"
    THEN [status |-> "JSONDecodeError", value |-> NoMetadata]
    ELSE IF \E i \in 1..Len(RequiredKeys) : RequiredKeys[i] \notin file.keys
    THEN [status |-> "KeyError", value |-> NoMetadata]
    ELSE [status |-> "ok",
          value |-> [present |-> TRUE,
                     speakers |-> [i \in 1..Len(file.speakers) |->
                                      LoadsValue(file.speakers[i])],
                     extra_data |-> file.keys \ RequiredKeySet]]

(* A bare except: every error of Metadata(datapath) is swallowed.          *)
CaughtAny(status) == status # "ok"

(* except RuntimeError: the errors _load_metadata turns into None.         *)
Caught(status) == status = "RuntimeError"

---------------------------------------------------------------------------
(* Conversations: loading and access.                                      *)

NoConvFile == [kind |-> "absent", lines |-> <<>>]

(* _load_conversations: json.loads of every line, in file order.           *)
LoadConversations(file) == [i \in 1..Len(file.lines) |-> Loads(file.lines[i])]

(* Outcomes of a call: a value returned (None or a record) or an error.    *)
Nothing == [status |-> "none", value |-> <<>>]
Returned(conv) == [status |-> "returned", value |-> <<conv>>]
ReturnedNone == [status |-> "None", value |-> <<>>]
Printed == [status |-> "printed", value |-> <<>>]
Raised(err) == [status |-> err, value |-> <<>>]

(* A lookup that rejects negative indices.                                 *)
ListIndexNoNegative(lst, index) ==
    IF 0 <= index /\ index < Len(lst) THEN Returned(lst[index + 1])
    ELSE Raised("IndexError")

(* self.conversations[index]: a Python list index, 0-based, negative       *)
(* indices counting from the end, IndexError outside -len..len-1.          *)
ListIndex(lst, index) ==
    IF 0 <= index /\ index < Len(lst) THEN Returned(lst[index + 1])
    ELSE IF index < 0 /\ -Len(lst) <= index
    THEN Returned(lst[Len(lst) + index + 1])
    ELSE Raised("IndexError")

(* An end test that lets the cursor pass the last conversation.            *)
AtEndOffByOne(idx, n) == idx > n

(* __next__: end reached?                                                  *)
AtEnd(idx, n) == idx >= n

(* A __next__ that forgets self.reset() at the end.                        *)
CursorAfterNextNoReset(idx, n) == IF idx >= n THEN idx ELSE idx + 1

(* __next__: the cursor after the call.                                    *)
CursorAfterNext(idx, n) == IF AtEnd(idx, n) THEN 0 ELSE idx + 1

(* __next__: the value returned.                                           *)
NextResult(convs, idx) ==
    IF AtEnd(idx, Len(convs)) THEN ReturnedNone ELSE ListIndex(convs, idx)

(* read_conv_idx: IndexError from the lookup, KeyError when a turn has no  *)
(* 'id' or no 'text', otherwise the conversation is printed.               *)
ReadConvIdxResult(convs, idx) ==
    LET r == ListIndex(convs, idx)
    IN  IF r.status # "returned" THEN r
        ELSE LET dialog == r.value[1].dialog
             IN  IF \E a \in 1..Len(dialog) : \E b \in 1..Len(dialog[a]) :
                        ~({"id", "text"} \subseteq DOMAIN dialog[a][b])
                 THEN Raised("KeyError")
                 ELSE Printed

---------------------------------------------------------------------------
(* Inputs of save_conversations.                                           *)

(* Raw turns: a context turn; a speaker turn with tuple labels and a field *)
(* no save_keys names; a speaker turn without 'text', with list labels.    *)
TurnContext == [id |-> Str("context"), text |-> Str("room A")]
TurnSpeaker1 == [id |-> Str("speaker_1"), text |-> Str("hi"),
                 labels |-> Tuple(<<"hello">>), reward |-> Str("1")]
TurnSpeaker2 == [id |-> Str("speaker_2"), labels |-> List(<<"hi">>)]
Turns == {TurnContext, TurnSpeaker1, TurnSpeaker2}

(* Turn-pairs of n turns.                                                  *)
ActPairs(n) == [1..n -> Turns]

(* Sequences of turn-pairs of size s, a pair counting 1 plus its turns.    *)
RECURSIVE PairSeqs(_)
PairSeqs(s) ==
    IF s = 0 THEN {<<>>}
    ELSE UNION {{<<p>> \o r : p \in ActPairs(k - 1), r \in PairSeqs(s - k)} :
                k \in 1..s}

(* Sequences of episodes of size s, an episode counting 1 plus the size of *)
(* its turn-pairs.                                                         *)
RECURSIVE EpisodeSeqs(_)
EpisodeSeqs(s) ==
    IF s = 0 THEN {<<>>}
    ELSE UNION {{<<e>> \o r : e \in PairSeqs(k - 1), r \in EpisodeSeqs(s - k)} :
                k \in 1..s}

(* Act lists of at most MaxSize episodes, turn-pairs and turns together.   *)
ActLists == UNION {EpisodeSeqs(s) : s \in 0..MaxSize}

(* save_keys: the default 'text,labels,eval_labels', or 'text'.            *)
DefaultSaveKeys == <<"text", "labels", "eval_labels">>
SaveKeysChoices == {DefaultSaveKeys, <<"text">>}

(* context_ids: the default 'context', or 'context,speaker_2'.             *)
DefaultContextIds == <<Str("context")>>
ContextIdsChoices == {DefaultContextIds, <<Str("context"), Str("speaker_2")>>}

---------------------------------------------------------------------------
(* Files found on disk when an archive is constructed.                     *)
SampleLines ==
    {Dumps([dialog |-> <<<<SetTurn(TurnSpeaker1, DefaultSaveKeys),
                           SetTurn(TurnSpeaker2, DefaultSaveKeys)>>>>,
            context |-> <<SetTurn(TurnContext, DefaultSaveKeys)>>,
            metadata_path |-> MetadataGetPath(DataPath)]),
     Dumps([dialog |-> <<<<SetTurn(TurnSpeaker2, <<"labels">>)>>>>,
            context |-> <<>>,
            metadata_path |-> MetadataGetPath(DataPath)])}

ConvFilesOnDisk ==
    {NoConvFile} \cup
    {[kind |-> "file", lines |-> ls] :
        ls \in UNION {[1..n -> SampleLines] : n \in 0..MaxLines}}

SidecarsOnDisk ==
    {NoSidecar, BadSidecar} \cup
    {[kind |-> "json", keys |-> ks,
      speakers |-> <<DumpsValue(Str("speaker_1"))>>] :
        ks \in {RequiredKeySet, RequiredKeySet \cup {"note"}}
               \cup {RequiredKeySet \ {k} : k \in RequiredKeySet}}

---------------------------------------------------------------------------
(* Initial states.                                                         *)

NoCall == [op |-> "", arg |-> 0]
Call(op, arg) == [op |-> op, arg |-> arg]

(* An archive about to be constructed on files already on disk.            *)
Init ==
    /\ act_list = <<>>
    /\ save_keys = DefaultSaveKeys
    /\ context_ids = DefaultContextIds
    /\ convFile \in ConvFilesOnDisk
    /\ metaFile \in SidecarsOnDisk
    /\ pc = "start"
    /\ conversations = <<>>
    /\ metadata = NoMetadata
    /\ iterator_idx = 0
    /\ call = NoCall
    /\ ret = Nothing
    /\ nextCalls = 0

(* A save call about to be made, nothing on disk yet.                      *)
InitSave ==
    /\ act_list \in ActLists
    /\ save_keys \in SaveKeysChoices
    /\ context_ids \in ContextIdsChoices
    /\ convFile = NoConvFile
    /\ metaFile = NoSidecar
    /\ pc = "start"
    /\ conversations = <<>>
    /\ metadata = NoMetadata
    /\ iterator_idx = 0
    /\ call = NoCall
    /\ ret = Nothing
    /\ nextCalls = 0

---------------------------------------------------------------------------
(* Actions.                                                                *)

(* Conversations.save_conversations(act_list, datapath, opt, save_keys,    *)
(* context_ids)                                                            *)
SaveConversations ==
    /\ pc = "start"
    /\ LET r == Saved(act_list, save_keys, context_ids)
       IN  /\ convFile' = [kind |-> "file", lines |-> r.lines]
           /\ metaFile' = SaveMetadata(r.speakers)
    /\ pc' = "saved"
    /\ call' = Call("save_conversations", 0)
    /\ ret' = ReturnedNone
    /\ UNCHANGED <<act_list, save_keys, context_ids, conversations, metadata,
                   iterator_idx, nextCalls>>

(* Conversations.__init__(datapath)                                        *)
Construct ==
    /\ pc \in {"start", "saved"}
    /\ IF convFile.kind = "absent"
       THEN /\ pc' = "failed"
            /\ ret' = Raised("RuntimeError")
            /\ UNCHANGED <<conversations, metadata>>
       ELSE LET m == MetadataLoad(metaFile)
            IN  IF m.status = "ok" \/ Caught(m.status)
                THEN /\ pc' = "loaded"
                     /\ conversations' = LoadConversations(convFile)
                     /\ metadata' = m.value
                     /\ ret' = Nothing
                ELSE /\ pc' = "failed"
                     /\ ret' = Raised(m.status)
                     /\ UNCHANGED <<conversations, metadata>>
    /\ iterator_idx' = 0
    /\ call' = Call("__init__", 0)
    /\ nextCalls' = 0
    /\ UNCHANGED <<act_list, save_keys, context_ids, convFile, metaFile>>

(* Conversations.__next__()                                                *)
NextConversation ==
    /\ pc = "loaded"
    /\ nextCalls < MaxNextCalls
    /\ ret' = NextResult(conversations, iterator_idx)
    /\ iterator_idx' = CursorAfterNext(iterator_idx, Len(conversations))
    /\ call' = Call("__next__", 0)
    /\ nextCalls' = IF nextCalls >= 0 THEN nextCalls + 1 ELSE nextCalls
    /\ UNCHANGED <<act_list, save_keys, context_ids, convFile, metaFile, pc,
                   conversations, metadata>>

(* Conversations.reset()                                                   *)
Reset ==
    /\ pc = "loaded"
    /\ iterator_idx' = 0
    /\ call' = Call("reset", 0)
    /\ ret' = ReturnedNone
    /\ nextCalls' = -1
    /\ UNCHANGED <<act_list, save_keys, context_ids, convFile, metaFile, pc,
                   conversations, metadata>>

(* Conversations.__getitem__(index)                                        *)
GetItem ==
    /\ pc = "loaded"
    /\ \E index \in -(MaxLines + 1)..(MaxLines + 1) :
           /\ call' = Call("__getitem__", index)
           /\ ret' = ListIndex(conversations, index)
    /\ nextCalls' = -1
    /\ UNCHANGED <<act_list, save_keys, context_ids, convFile, metaFile, pc,
                   conversations, metadata, iterator_idx>>

(* Conversations.read_conv_idx(idx)                                        *)
ReadConvIdx ==
    /\ pc = "loaded"
    /\ \E idx \in -(MaxLines + 1)..(MaxLines + 1) :
           /\ call' = Call("read_conv_idx", idx)
           /\ ret' = ReadConvIdxResult(conversations, idx)
    /\ nextCalls' = -1
    /\ UNCHANGED <<act_list, save_keys, context_ids, convFile, metaFile, pc,
                   conversations, metadata, iterator_idx>>

(* Conversations.read_rand_conv()                                          *)
ReadRandConv ==
    /\ pc = "loaded"
    /\ IF conversations = <<>>
       THEN ret' = Raised("IndexError")
       ELSE \E idx \in 0..(Len(conversations) - 1) :
                ret' = ReadConvIdxResult(conversations, idx)
    /\ call' = Call("read_rand_conv", 0)
    /\ nextCalls' = -1
    /\ UNCHANGED <<act_list, save_keys, context_ids, convFile, metaFile, pc,
                   conversations, metadata, iterator_idx>>

(* Conversations.read_metadata()                                           *)
ReadMetadata ==
    /\ pc = "loaded"
    /\ ret' = IF metadata.present THEN Printed ELSE ReturnedNone
    /\ call' = Call("read_metadata", 0)
    /\ nextCalls' = -1
    /\ UNCHANGED <<act_list, save_keys, context_ids, convFile, metaFile, pc,
                   conversations, metadata, iterator_idx>>

Next ==
    \/ Construct
    \/ NextConversation
    \/ Reset
    \/ GetItem
    \/ ReadConvIdx
    \/ ReadRandConv
    \/ ReadMetadata

NextSave ==
    \/ SaveConversations
    \/ Construct

Spec == Init /\ [][Next]_vars

SpecSave == InitSave /\ [][NextSave]_vars

---------------------------------------------------------------------------
(* Properties of the archive, checked under Spec.                          *)

(* C1: on a freshly loaded archive of N conversations, the k-th of N       *)
(* consecutive __next__ calls returns the k-th line of the file; call N+1  *)
(* returns None and leaves the cursor at 0; call N+2 returns the first     *)
(* conversation again.                                                     *)
C1_NextCycle ==
    (pc = "loaded" /\ nextCalls >= 1) =>
        LET N == Len(convFile.lines)
        IN  /\ nextCalls <= N =>
                 /\ ret = Returned(Loads(convFile.lines[nextCalls]))
                 /\ iterator_idx = nextCalls
            /\ nextCalls = N + 1 => (ret = ReturnedNone /\ iterator_idx = 0)
            /\ (nextCalls = N + 2 /\ N > 0) =>
                 /\ ret = Returned(Loads(convFile.lines[1]))
                 /\ iterator_idx = 1

(* A full cycle over a two-line file: N + 2 calls were made and the last   *)
(* one restarted from the first conversation.                              *)
C1_Witness ==
    /\ pc = "loaded"
    /\ Len(conversations) = 2
    /\ conversations[1] # conversations[2]
    /\ nextCalls = 4
    /\ ret = Returned(conversations[1])

C7_WitnessMissingOpt ==
    /\ pc = "failed"
    /\ convFile.kind = "file"
    /\ metaFile.kind = "json"
    /\ metaFile.keys = RequiredKeySet \ {"opt"}
    /\ ret = Raised("KeyError")

(* C8: the cursor of a loaded archive stays within 0..num_conversations;   *)
(* a step that changes it is a __next__ or a reset; a __next__ made with   *)
(* the cursor at num_conversations sets it to 0.                           *)
C8_CursorStep ==
    pc = "loaded" =>
        /\ (iterator_idx' # iterator_idx) => call'.op \in {"__next__", "reset"}
        /\ (call'.op = "__next__" /\ iterator_idx = Len(conversations)) =>
              iterator_idx' = 0
        /\ (call'.op = "__next__" /\ iterator_idx < Len(conversations)) =>
              iterator_idx' = iterator_idx + 1

C8_CursorInRange ==
    /\ [](pc = "loaded" => iterator_idx \in 0..Len(conversations))
    /\ [][C8_CursorStep]_vars

(* The cursor wrapped: a __next__ at the end of a two-conversation archive *)
(* returned None and the cursor is 0.                                      *)
C8_Witness ==
    /\ pc = "loaded"
    /\ Len(conversations) = 2
    /\ call.op = "__next__"
    /\ ret = ReturnedNone
    /\ iterator_idx = 0

(* C9 as claimed: __getitem__ returns the index-th record for index in     *)
(* 0..N-1 and raises IndexError for every other index, negative ones       *)
(* included.                                                               *)
C9_AsClaimed ==
    (pc = "loaded" /\ call.op = "__getitem__") =>
        LET N == Len(conversations)
        IN  IF 0 <= call.arg /\ call.arg < N
            THEN ret = Returned(Loads(convFile.lines[call.arg + 1]))
            ELSE ret = Raised("IndexError")

(* C9 amended: __getitem__ returns the index-th record for index in        *)
(* 0..N-1, the (N+index)-th record for index in -N..-1, and raises         *)
(* IndexError for index >= N and for index < -N.                           *)
C9_GetItem ==
    (pc = "loaded" /\ call.op = "__getitem__") =>
        LET N == Len(conversations)
        IN  /\ N = Len(convFile.lines)
            /\ (0 <= call.arg /\ call.arg < N) =>
                 ret = Returned(Loads(convFile.lines[call.arg + 1]))
            /\ (-N <= call.arg /\ call.arg < 0) =>
                 ret = Returned(Loads(convFile.lines[N + call.arg + 1]))
            /\ (call.arg >= N \/ call.arg < -N) => ret = Raised("IndexError")

(* __getitem__(-1) on a two-conversation archive returned the last record. *)
C9_Witness ==
    /\ pc = "loaded"
    /\ call = Call("__getitem__", -1)
    /\ Len(conversations) = 2
    /\ conversations[1] # conversations[2]
    /\ ret = Returned(conversations[2])

---------------------------------------------------------------------------
(* Properties of save_conversations, checked under SpecSave.               *)

SaveDone == pc \in {"saved", "loaded"}

(* The episodes of the call that are not empty sequences, in order.        *)
NonEmptyEpisodes ==
    LET NotEmpty(ep) == ep # <<>> IN SelectSeq(act_list, NotEmpty)

(* The turns of an episode in source order, split by classification.       *)
IsCtx(t) == \E c \in 1..Len(context_ids) : context_ids[c] = ExId(t)
NonCtx(t) == ~IsCtx(t)
DialogTurns(ep) == SelectSeq(Flatten(ep), NonCtx)
ContextTurns(ep) == SelectSeq(Flatten(ep), IsCtx)

KeySet == {save_keys[i] : i \in 1..Len(save_keys)}
EmptyString == [kind |-> "string", v |-> <<"">>]

(* C2: the speakers written to the metadata are exactly the ids of the     *)
(* non-context turns of the call, without duplicates, ordered by first     *)
(* occurrence over all episodes; no context id is among them.              *)
C2_Speakers ==
    SaveDone =>
        LET sp == metaFile.speakers
            turns == Flatten(Flatten(act_list))
            ids == [i \in 1..Len(turns) |-> DumpsValue(ExId(turns[i]))]
            nonctx == {i \in 1..Len(turns) : NonCtx(turns[i])}
            First(x) == CHOOSE i \in nonctx :
                            ids[i] = x /\ \A j \in nonctx : ids[j] = x => i <= j
        IN  /\ {sp[i] : i \in 1..Len(sp)} = {ids[i] : i \in nonctx}
            /\ \A i, j \in 1..Len(sp) : i < j => sp[i] # sp[j]
            /\ \A i, j \in 1..Len(sp) : i < j => First(sp[i]) < First(sp[j])
            /\ \A i \in 1..Len(sp) : \A c \in 1..Len(context_ids) :
                   sp[i] # DumpsValue(context_ids[c])

(* Two episodes, the second repeating a speaker of the first, with a       *)
(* context turn among them: the speaker is listed once.                    *)
C2_Witness ==
    /\ pc = "saved"
    /\ Len(act_list) = 2
    /\ \E t \in Turns :
          /\ NonCtx(t)
          /\ \E i \in 1..Len(Flatten(act_list[1])) : Flatten(act_list[1])[i] = t
          /\ \E i \in 1..Len(Flatten(act_list[2])) : Flatten(act_list[2])[i] = t
    /\ \E i \in 1..Len(Flatten(act_list[1])) : IsCtx(Flatten(act_list[1])[i])
    /\ Len(metaFile.speakers) = 1

(* C3 as claimed: after saving and loading, record k holds the non-context *)
(* turns of the k-th non-empty episode in source order, each with the same *)
(* id and the same value for every saved key the source turn has.          *)
C3_AsClaimed ==
    pc = "loaded" =>
        /\ Len(conversations) = Len(NonEmptyEpisodes)
        /\ \A k \in 1..Len(conversations) :
              LET got == Flatten(conversations[k].dialog)
                  src == DialogTurns(NonEmptyEpisodes[k])
              IN  /\ Len(got) = Len(src)
                  /\ \A i \in 1..Len(got) :
                        /\ "id" \in DOMAIN got[i]
                        /\ got[i]["id"] = ExId(src[i])
                        /\ \A key \in (KeySet \cap DOMAIN src[i]) \ {"id"} :
                              /\ key \in DOMAIN got[i]
                              /\ got[i][key] = src[i][key]

(* A tuple read back from the file is a list of the same elements.         *)
AsLoaded(x) == IF x.kind = "tuple" THEN [kind |-> "list", v |-> x.v] ELSE x

(* C3 amended: as claimed, except that a saved value that was a tuple is   *)
(* loaded as a list of the same elements.                                  *)
C3_RoundTrip ==
    pc = "loaded" =>
        /\ Len(conversations) = Len(NonEmptyEpisodes)
        /\ \A k \in 1..Len(conversations) :
              LET got == Flatten(conversations[k].dialog)
                  src == DialogTurns(NonEmptyEpisodes[k])
              IN  /\ Len(got) = Len(src)
                  /\ \A i \in 1..Len(got) :
                        /\ "id" \in DOMAIN got[i]
                        /\ got[i]["id"] = ExId(src[i])
                        /\ \A key \in (KeySet \cap DOMAIN src[i]) \ {"id"} :
                              /\ key \in DOMAIN got[i]
                              /\ got[i][key] = AsLoaded(src[i][key])

(* A loaded pair of two different speakers, the first of them with labels  *)
(* that were a tuple in the source and are a list after loading.           *)
C3_Witness ==
    /\ pc = "loaded"
    /\ "labels" \in KeySet
    /\ \E k \in 1..Len(conversations) :
          \E j \in 1..Len(conversations[k].dialog) :
             LET pair == conversations[k].dialog[j]
             IN  /\ Len(pair) = 2
                 /\ pair[1]["id"] = Str("speaker_1")
                 /\ pair[2]["id"] = Str("speaker_2")
                 /\ pair[1]["labels"] = List(<<"hello">>)
                 /\ DialogTurns(NonEmptyEpisodes[k])[1]["labels"] = Tuple(<<"hello">>)

(* C4: the file has one line per non-empty episode, in episode order (line *)
(* k holds as many turns as the k-th non-empty episode), and none for an   *)
(* empty episode; loading it gives as many conversations.                  *)
C4_LineCount ==
    SaveDone =>
        /\ Len(convFile.lines) = Len(NonEmptyEpisodes)
        /\ Len(convFile.lines) =
               Cardinality({i \in 1..Len(act_list) : Len(act_list[i]) >= 1})
        /\ \A k \in 1..Len(convFile.lines) :
              Len(Flatten(convFile.lines[k].dialog)) + Len(convFile.lines[k].context)
                  = Len(Flatten(NonEmptyEpisodes[k]))
        /\ pc = "loaded" => Len(conversations) = Len(NonEmptyEpisodes)

(* An empty episode between two non-empty ones: two lines, two loaded      *)
(* conversations.                                                          *)
C4_Witness ==
    /\ pc = "loaded"
    /\ Len(act_list) = 3
    /\ act_list[1] # <<>>
    /\ act_list[2] = <<>>
    /\ act_list[3] # <<>>
    /\ Len(convFile.lines) = 2
    /\ Len(conversations) = 2

(* C5 as claimed: no line is written for an episode that yields neither a  *)
(* dialog pair nor a context entry, so no line has both lists empty.       *)
C5_AsClaimed ==
    SaveDone =>
        \A k \in 1..Len(convFile.lines) :
            ~(convFile.lines[k].dialog = <<>> /\ convFile.lines[k].context = <<>>)

(* C5 amended: a non-empty episode without any turn (all its turn-pairs    *)
(* empty) is written as one line whose dialog and context are both empty;  *)
(* only an episode that is an empty sequence gets no line.                 *)
C5_TurnlessEpisodeWritten ==
    SaveDone =>
        /\ Len(convFile.lines) = Len(NonEmptyEpisodes)
        /\ \A k \in 1..Len(convFile.lines) :
              Flatten(NonEmptyEpisodes[k]) = <<>> <=>
                  (convFile.lines[k].dialog = <<>> /\ convFile.lines[k].context = <<>>)

(* An episode made of one empty turn-pair was saved as a line with empty   *)
(* dialog and context.                                                     *)
C5_Witness ==
    /\ pc = "saved"
    /\ \E k \in 1..Len(convFile.lines) :
          /\ k <= Len(NonEmptyEpisodes)
          /\ NonEmptyEpisodes[k] = << <<>> >>
          /\ convFile.lines[k].dialog = <<>>
          /\ convFile.lines[k].context = <<>>

(* The turn records save writes for a sequence of source turns.            *)
Written(ts) == [i \in 1..Len(ts) |-> DumpsTurn(SetTurn(ts[i], save_keys))]

(* C6: in the line of every non-empty episode, context holds the context   *)
(* turns of the episode, one per occurrence in source order; dialog holds, *)
(* for each source pair with a non-context turn and in order, the          *)
(* non-context turns of that pair; no dialog pair is empty, no dialog turn *)
(* has a context id and every context entry has one.                       *)
C6_ContextDialogSplit ==
    SaveDone =>
        /\ Len(convFile.lines) = Len(NonEmptyEpisodes)
        /\ \A k \in 1..Len(convFile.lines) :
              LET ep == NonEmptyEpisodes[k]
                  rec == convFile.lines[k]
                  HasDialogTurn(pair) == \E i \in 1..Len(pair) : NonCtx(pair[i])
                  kept == SelectSeq(ep, HasDialogTurn)
                  ctxIds == {DumpsValue(context_ids[c]) : c \in 1..Len(context_ids)}
              IN  /\ rec.context = Written(ContextTurns(ep))
                  /\ Len(rec.dialog) = Len(kept)
                  /\ \A j \in 1..Len(rec.dialog) :
                        /\ rec.dialog[j] # <<>>
                        /\ rec.dialog[j] = Written(SelectSeq(kept[j], NonCtx))
                        /\ \A i \in 1..Len(rec.dialog[j]) :
                              rec.dialog[j][i]["id"] \notin ctxIds
                  /\ \A i \in 1..Len(rec.context) : rec.context[i]["id"] \in ctxIds

(* An episode of two pairs, the first made only of a context turn, the     *)
(* second mixing a context turn with dialog turns: one dialog pair, two    *)
(* context entries.                                                        *)
C6_Witness ==
    /\ pc = "saved"
    /\ \E k \in 1..Len(convFile.lines) :
          /\ k <= Len(NonEmptyEpisodes)
          /\ Len(NonEmptyEpisodes[k]) = 2
          /\ Len(NonEmptyEpisodes[k][1]) = 1
          /\ IsCtx(NonEmptyEpisodes[k][1][1])
          /\ Len(convFile.lines[k].dialog) = 1
          /\ Len(convFile.lines[k].context) = 2

(* The shape of a written turn w made from the source turn t.              *)
TurnShape(w, t) ==
    /\ DOMAIN w = KeySet \cup {"id"}
    /\ \A key \in KeySet \ {"id"} : key \notin DOMAIN t => w[key] = EmptyString
    /\ \A key \in DOMAIN t \ (KeySet \cup {"id"}) : key \notin DOMAIN w

(* C10: every turn record written, in dialog or in context, has exactly    *)
(* the keys of save_keys plus id; a key its source turn lacks holds the    *)
(* empty string; a source field save_keys does not name is not written.    *)
C10_TurnKeys ==
    SaveDone =>
        /\ Len(convFile.lines) = Len(NonEmptyEpisodes)
        /\ \A k \in 1..Len(convFile.lines) :
              LET d == Flatten(convFile.lines[k].dialog)
                  c == convFile.lines[k].context
                  ds == DialogTurns(NonEmptyEpisodes[k])
                  cs == ContextTurns(NonEmptyEpisodes[k])
              IN  /\ Len(d) = Len(ds)
                  /\ Len(c) = Len(cs)
                  /\ \A i \in 1..Len(d) : TurnShape(d[i], ds[i])
                  /\ \A i \in 1..Len(c) : TurnShape(c[i], cs[i])

(* A written dialog turn whose source has no 'text' and has a field that   *)
(* is not saved, next to a written context turn.                           *)
C10_Witness ==
    /\ pc = "saved"
    /\ \E k \in 1..Len(convFile.lines) :
          /\ k <= Len(NonEmptyEpisodes)
          /\ convFile.lines[k].context # <<>>
          /\ \E i \in 1..Len(DialogTurns(NonEmptyEpisodes[k])) :
                /\ "text" \notin DOMAIN DialogTurns(NonEmptyEpisodes[k])[i]
                /\ "labels" \in DOMAIN DialogTurns(NonEmptyEpisodes[k])[i]
                /\ "labels" \notin KeySet
                /\ Flatten(convFile.lines[k].dialog)[i]["text"] = EmptyString

====
